---------------------------- MODULE Spec2Model ----------------------------
(***************************************************************************)
(* A model of the Obfuscator headers:                                      *)
(*   Include/StringObfuscator.h  - five-layer byte cipher, the lazily      *)
(*                                 decoded ObfuscatedString holder and the *)
(*                                 OBF_UNIQUE_SEED site seed;              *)
(*   Include/Junk.h              - seed mixers, site_seed, the junk        *)
(*                                 dispatchers emit / emit_heavy and the   *)
(*                                 JUNK_CODE_BLOCK macros.                 *)
(*                                                                         *)
(* uint32_t / uint64_t values are little-endian sequences of bytes (4 or 8 *)
(* elements of 0..255), so that every operation keeps the width it has in  *)
(* C++: additions and multiplications wrap modulo 2^32 (2^64), shifts drop *)
(* the bits that leave the word.  uint8_t values are numbers in 0..255.    *)
(***************************************************************************)
EXTENDS Integers, Sequences, FiniteSets, TLC

(***************************************************************************)
(* Fixed-width unsigned arithmetic                                         *)
(***************************************************************************)

\* A function on 1..n as an explicit tuple.  The value is the function itself;
\* the concatenation makes TLC enumerate it once instead of re-evaluating its
\* defining expression at every application.
Array(f) == f \o <<>>

\* The word 0x b3 b2 b1 b0, written most significant byte first as in the source.
W32(b3, b2, b1, b0) == <<b0, b1, b2, b3>>

\* A natural number below 2^31 as a word of n bytes (static_cast<uint32_t>(int)).
FromNat(v, n) == Array([i \in 1..n |-> IF i <= 4 THEN (v \div (256 ^ (i - 1))) % 256 ELSE 0])

\* Zero-extension of a word to n bytes (static_cast<uint64_t>(uint32_t)).
Widen(w, n) == Array([i \in 1..n |-> IF i <= Len(w) THEN w[i] ELSE 0])

\* Truncation of a word to its n low bytes (static_cast<uint32_t>(size_t)).
Narrow(w, n) == Array([i \in 1..n |-> w[i]])

ByteAt(w, i) == IF i >= 1 /\ i <= Len(w) THEN w[i] ELSE 0

\* a ^ b on uint8_t
Xor8(a, b) ==
    LET bit(k) == (((a \div (2 ^ k)) % 2) + ((b \div (2 ^ k)) % 2)) % 2
    IN  bit(0) + 2 * bit(1) + 4 * bit(2) + 8 * bit(3)
        + 16 * bit(4) + 32 * bit(5) + 64 * bit(6) + 128 * bit(7)

\* a & b on uint8_t
And8(a, b) ==
    LET bit(k) == ((a \div (2 ^ k)) % 2) * ((b \div (2 ^ k)) % 2)
    IN  bit(0) + 2 * bit(1) + 4 * bit(2) + 8 * bit(3)
        + 16 * bit(4) + 32 * bit(5) + 64 * bit(6) + 128 * bit(7)

\* a ^ b, a & b, a | b on words of equal width
Xor(a, b) == Array([i \in 1..Len(a) |-> Xor8(a[i], b[i])])
And(a, b) == Array([i \in 1..Len(a) |-> And8(a[i], b[i])])
Or(a, b)  == Array([i \in 1..Len(a) |-> a[i] + b[i] - And8(a[i], b[i])])

\* a + b modulo 2^(8 * Len(a))
Add(a, b) ==
    LET n == Len(a)
        carry[i \in 0..n] ==
            IF i = 0 THEN 0 ELSE (a[i] + b[i] + carry[i - 1]) \div 256
    IN  Array([i \in 1..n |-> (a[i] + b[i] + carry[i - 1]) % 256])

\* a * b modulo 2^(8 * Len(a))
Mul(a, b) ==
    LET n == Len(a)
        col[k \in 1..n] ==
            LET part[i \in 0..k] ==
                    IF i = 0 THEN 0 ELSE part[i - 1] + a[i] * b[k + 1 - i]
            IN  part[k]
        carry[k \in 0..n] ==
            IF k = 0 THEN 0 ELSE (col[k] + carry[k - 1]) \div 256
    IN  Array([k \in 1..n |-> (col[k] + carry[k - 1]) % 256])

\* w << s and w >> s for 0 <= s < 8 * Len(w)
Shl(w, s) ==
    LET q == s \div 8
        r == s % 8
    IN  Array([i \in 1..Len(w) |->
            ((ByteAt(w, i - q) * (2 ^ r)) % 256)
            + (ByteAt(w, i - q - 1) \div (2 ^ (8 - r)))])

Shr(w, s) ==
    LET q == s \div 8
        r == s % 8
    IN  Array([i \in 1..Len(w) |->
            (ByteAt(w, i + q) \div (2 ^ r))
            + ((ByteAt(w, i + q + 1) * (2 ^ (8 - r))) % 256)])

\* (w >> s) & (2^n - 1) as a number, for n <= 16
Bits(w, s, n) ==
    LET v == Shr(w, s)
    IN  (v[1] + 256 * ByteAt(v, 2)) % (2 ^ n)

\* w % m as a number, for a small modulus m
ModSmall(w, m) ==
    LET rem[i \in 0..Len(w)] ==
            IF i = 0 THEN 0 ELSE (rem[i - 1] * 256 + w[Len(w) + 1 - i]) % m
    IN  rem[Len(w)]


(***************************************************************************)
(* The state                                                               *)
(***************************************************************************)
VARIABLES
    \* --- one literal and its cipher (StringObfuscator.h:120-179) ---
    size_t_width,   \* bytes of std::size_t in this build: 8 or 4
    SEED,           \* the template argument SEED of the literal, a uint32_t
    str,            \* the literal, const char (&)[N], as bytes
    enc,            \* the result of ObfuscateString, <<>> before it ran
    plain,          \* the result of DecryptString, <<>> before it ran
    cipher_pc,      \* "idle" | "source" | "encoded" | "decoded"
    \* --- one ObfuscatedString<N, SEED> (StringObfuscator.h:182-201) ---
    encrypted_,     \* std::array<uint8_t, N> encrypted_
    decrypted_,     \* mutable std::string decrypted_, as bytes
    dec_,           \* mutable bool dec_
    life,           \* "none" | "constructed" | "destroyed"
    released,       \* the bytes left in decrypted_'s storage when it was released
    decodes,        \* number of executions of DecryptString so far
    history,        \* single thread: the accesses made, oldest first
    \* --- threads calling the accessors concurrently ---
    pc,             \* thread -> position inside the accessor it called
    op,             \* thread -> the accessor it called
    tmp,            \* thread -> the temporary returned by its DecryptString
    writers,        \* threads in the middle of assigning decrypted_
    ret,            \* thread -> the text its accessor handed to the caller
    \* --- the expansion of the macros of one translation unit, at build time ---
    builds,         \* the builds compared: records of __FILE__, __DATE__, __TIME__
    tu,             \* build -> tu_seed() of that build, <<>> before it is computed
    site_pc,        \* "idle" | "start" | "expand"
    counter,        \* the value the next __COUNTER__ expands to
    pinned,         \* an earlier junk-block request, or NoRequest
    last,           \* the latest request (junk block or literal), or NoRequest
    \* --- one call of emit<Line, Ctr>() or emit_heavy<Line, Ctr>(), at run time ---
    junk_pc,        \* "idle" | "call" | "heavy_emit" | "emit_loop" | "heavy_loop" | "done"
    mode,           \* "light" (JUNK_CODE_BLOCK) or "heavy" (JUNK_CODE_BLOCK_ADVANCED)
    site,           \* the template arguments [Line, Ctr]
    emit_c,         \* the constexpr values of emit, NoRequest before it is entered
    heavy_c,        \* the constexpr values of emit_heavy, NoRequest outside it
    emit_i,         \* the loop variable i of emit
    heavy_k,        \* the loop variable k of emit_heavy
    emits,          \* number of calls of emit so far
    trace           \* the pattern invocations made, oldest first

cipherVars == <<size_t_width, SEED, str, enc, plain, cipher_pc>>
literalVars == <<size_t_width, SEED, str>>
objectVars == <<encrypted_, decrypted_, dec_, life, released, decodes, history>>
threadVars == <<pc, op, tmp, writers, ret>>
buildVars == <<builds, tu>>
siteVars == <<site_pc, counter, pinned, last>>
junkVars == <<junk_pc, mode, site, emit_c, heavy_c, emit_i, heavy_k, emits, trace>>
vars == <<cipherVars, objectVars, threadVars, buildVars, siteVars, junkVars>>

(***************************************************************************)
(* StringObfuscator.h: small constexpr utilities                           *)
(***************************************************************************)

\* uint8_t rotl8(uint8_t v, unsigned r)
rotl8(v, r) ==
    LET l == (v * (2 ^ (r % 8))) % 256
        h == v \div (2 ^ ((8 - (r % 8)) % 8))
    IN  l + h - And8(l, h)

\* uint8_t rotr8(uint8_t v, unsigned r)
rotr8(v, r) ==
    LET l == v \div (2 ^ (r % 8))
        h == (v * (2 ^ ((8 - (r % 8)) % 8))) % 256
    IN  l + h - And8(l, h)

\* cswap(a[i], a[j]) on the elements i and j (0-based, as in the source) of a
cswap(a, i, j) == [a EXCEPT ![i + 1] = a[j + 1], ![j + 1] = a[i + 1]]

\* StringObfuscator::mix32
StringObfuscator_mix32(x) ==
    LET x1 == Xor(x, Shl(x, 13))
        x2 == Xor(x1, Shr(x1, 17))
    IN  Xor(x2, Shl(x2, 5))

\* constexpr uint32_t K = mix32(SEED * 0x9E3779B1u + static_cast<uint32_t>(N))
CipherKey(N, seed) ==
    StringObfuscator_mix32(Add(Mul(seed, W32(158, 55, 121, 177)), FromNat(N, 4)))

\* key1 and key2 of layer 1, both uint64_t
Key1(K) ==
    Xor(Mul(Widen(K, 8), <<179, 1, 0, 0, 0, 1, 0, 0>>), Widen(W32(222, 173, 190, 239), 8))
Key2(K) ==
    Xor(Mul(Widen(K, 8), <<179, 1, 0, 0, 0, 16, 0, 0>>), Widen(W32(202, 254, 186, 190), 8))

\* One byte of layer 1 at index i (0-based): c ^= key1 >> s1; c ^= key2 >> s2
Layer1_Byte(K, i, c) ==
    Xor8(Xor8(c, Bits(Key1(K), (i * 8) % 56, 8)), Bits(Key2(K), (i * 3) % 56, 8))

Layer1_XOR(N, K, in) == Array([i \in 1..N |-> Layer1_Byte(K, i - 1, in[i])])

\* r = (base + i) % 7 + 1 with base = K % 7 + 1
RotateAmount(K, i) == ((ModSmall(K, 7) + 1 + i) % 7) + 1

\* (i % 2 == 0) ? 0xAA : 0x55
ParityMask(i) == IF i % 2 = 0 THEN 170 ELSE 85

Layer2_BitRotate(N, K, in) ==
    Array([i \in 1..N |-> Xor8(rotl8(in[i], RotateAmount(K, i - 1)), ParityMask(i - 1))])

\* The swap index taken from the seed alone:  j = SEED % (i + 1)
SwapIndex_seeded(K, i) == ModSmall(Widen(K, size_t_width), i + 1)

\* j = (static_cast<std::size_t>(SEED) * (i + 1)) % (i + 1), computed in size_t
SwapIndex(K, i) ==
    ModSmall(Mul(Widen(K, size_t_width), FromNat(i + 1, size_t_width)), i + 1)

\* The array after the iterations N - 1, ..., i of
\*   for (i = N - 1; i > 0; --i) cswap(a[i], a[j])
RECURSIVE SwapSchedule(_, _, _)
SwapSchedule(K, a, i) ==
    IF i >= Len(a) THEN a
    ELSE cswap(SwapSchedule(K, a, i + 1), i, SwapIndex(K, i))

Layer3_Shuffle(N, K, in) ==
    LET out == IF N > 1 THEN SwapSchedule(K, in, 1) ELSE in
    IN  Array([i \in 1..N |-> Xor8((out[i] + 13) % 256, 42)])

Layer4_MultiPass(N, K, in) ==
    LET p1 == Array([i \in 1..N |-> Xor8(in[i], Bits(Add(K, FromNat(i - 1, 4)), 0, 8))])
        p2 == Array([i \in 1..N |-> 255 - p1[i]])
    IN  Array([i \in 1..N |-> rotr8(p2[i], 2)])

mul197(v) == (197 * v) % 256
\* A wrong modular inverse of 197.
mul197_inv_wrong(v) == (11 * v) % 256

mul197_inv(v) == (13 * v) % 256

Layer5_AsciiBreaker_Enc(N, K, in) ==
    Array([i \in 1..N |->
        LET t == ((i - 1) * 139) % 256
            e == (mul197(in[i]) + 101) % 256
        IN  Xor8(Xor8(e, 165), t)])

Layer5_AsciiBreaker_Dec(N, K, in) ==
    Array([i \in 1..N |->
        LET t == ((i - 1) * 139) % 256
            d == Xor8(Xor8(in[i], 165), t)
        IN  mul197_inv((d + 256 - 101) % 256)])

\* ObfuscateString<N, SEED>(str)
ObfuscateString(N, seed, s) ==
    LET K  == CipherKey(N, seed)
        l1 == Layer1_XOR(N, K, s)
        l2 == Layer2_BitRotate(N, K, l1)
        l3 == Layer3_Shuffle(N, K, l2)
        l4 == Layer4_MultiPass(N, K, l3)
    IN  Layer5_AsciiBreaker_Enc(N, K, l4)

\* The index table of DecryptString: idx[i] = i, then the swaps of Layer 3.
\* Position i of the shuffled array holds the byte of position idx[i].
IndexTable(N, K) ==
    LET id == Array([i \in 1..N |-> i - 1])
    IN  IF N > 1 THEN SwapSchedule(K, id, 1) ELSE id

\* unshuf after the first n iterations of
\*   for (i = 0; i < N; ++i) unshuf[idx[i]] = data[i]
RECURSIVE Scatter(_, _, _)
Scatter(idx, data, n) ==
    IF n = 0 THEN Array([i \in 1..Len(data) |-> 0])
    ELSE [Scatter(idx, data, n - 1) EXCEPT ![idx[n] + 1] = data[n]]

\* DecryptString<N, SEED>(enc)
DecryptString(N, seed, e) ==
    LET K  == CipherKey(N, seed)
        d5 == Layer5_AsciiBreaker_Dec(N, K, e)
        \* undo Layer4
        a1 == Array([i \in 1..N |-> rotl8(d5[i], 2)])
        a2 == Array([i \in 1..N |-> 255 - a1[i]])
        a3 == Array([i \in 1..N |-> Xor8(a2[i], Bits(Add(K, FromNat(i - 1, 4)), 0, 8))])
        \* undo Layer3
        b1 == Array([i \in 1..N |-> (Xor8(a3[i], 42) + 256 - 13) % 256])
        idx == IndexTable(N, K)
        b2 == Scatter(idx, b1, N)
        \* undo Layer2
        c1 == Array([i \in 1..N |->
                 rotr8(Xor8(b2[i], ParityMask(i - 1)), RotateAmount(K, i - 1))])
        \* undo Layer1
    IN  Array([i \in 1..N |->
            Xor8(Xor8(c1[i], Bits(Key2(K), ((i - 1) * 3) % 56, 8)),
                 Bits(Key1(K), ((i - 1) * 8) % 56, 8))])


(***************************************************************************)
(* Idle values: what the variables of one part of the model hold while a   *)
(* specification of another part runs.                                     *)
(***************************************************************************)
CipherIdle == enc = <<>> /\ plain = <<>> /\ cipher_pc = "idle"

ObjectIdle ==
    /\ encrypted_ = <<>>
    /\ decrypted_ = <<>>
    /\ dec_ = FALSE
    /\ life = "none"
    /\ released = <<>>
    /\ decodes = 0
    /\ history = <<>>

ThreadsIdle ==
    /\ pc = <<>>
    /\ op = <<>>
    /\ tmp = <<>>
    /\ writers = {}
    /\ ret = <<>>

NoRequest == [kind |-> "none"]

BuildIdle == builds = <<>> /\ tu = <<>>

SitesIdle ==
    /\ site_pc = "idle"
    /\ counter = 0
    /\ pinned = NoRequest
    /\ last = NoRequest

JunkIdle ==
    /\ junk_pc = "idle"
    /\ mode = "none"
    /\ site = NoRequest
    /\ emit_c = NoRequest
    /\ heavy_c = NoRequest
    /\ emit_i = 0
    /\ heavy_k = 0
    /\ emits = 0
    /\ trace = <<>>

(***************************************************************************)
(* One literal through ObfuscateString (build time) and DecryptString      *)
(* (run time).                                                             *)
(***************************************************************************)

\* Longest literal tried, terminator included.
MaxLen == 21

\* SEED template arguments tried: 0, 1, 0x12345678, 0x80000001, 0xFFFFFFFF.
Seeds ==
    { W32(0, 0, 0, 0), W32(0, 0, 0, 1), W32(18, 52, 86, 120),
      W32(128, 0, 0, 1), W32(255, 255, 255, 255) }

\* The literals tried are the prefixes, of every length 1..MaxLen, of these
\* byte patterns repeated: NUL, 'A', 0xFF, "A\0", 0xFF 0x80, 0x80 'A' 0x01
\* and "HELLO\0".
Patterns ==
    { <<0>>, <<65>>, <<255>>, <<65, 0>>, <<255, 128>>, <<128, 65, 1>>,
      <<72, 69, 76, 76, 79, 0>> }

Texts ==
    UNION { { Array([i \in 1..n |-> p[((i - 1) % Len(p)) + 1]]) : p \in Patterns } :
            n \in 1..MaxLen }

CipherInit ==
    /\ size_t_width \in {4, 8}
    /\ SEED \in Seeds
    /\ str \in Texts
    /\ enc = <<>>
    /\ plain = <<>>
    /\ cipher_pc = "source"
    /\ ObjectIdle
    /\ ThreadsIdle
    /\ BuildIdle
    /\ SitesIdle
    /\ JunkIdle

\* constexpr auto _enc = ObfuscateString<sizeof(lit), SEED>(lit)
Encode ==
    /\ cipher_pc = "source"
    /\ enc' = ObfuscateString(Len(str), SEED, str)
    /\ cipher_pc' = "encoded"
    /\ UNCHANGED <<literalVars, plain, objectVars, threadVars,
                   buildVars, siteVars, junkVars>>

\* DecryptString<N, SEED>(encrypted_)
Decode ==
    /\ cipher_pc = "encoded"
    /\ plain' = DecryptString(Len(enc), SEED, enc)
    /\ cipher_pc' = "decoded"
    /\ UNCHANGED <<literalVars, enc, objectVars, threadVars,
                   buildVars, siteVars, junkVars>>

CipherNext == Encode \/ Decode

SpecCipher == CipherInit /\ [][CipherNext]_vars

\* C1: for every seed, every length N >= 1 and every N-byte input, DecryptString
\* applied to the output of ObfuscateString returns exactly the original N bytes
\* in the original order.
RoundTrip == cipher_pc = "decoded" => plain = str

\* C1 witness: a literal longer than the key schedule's period of 7, under the
\* largest seed, has been encoded to different bytes and decoded again.
RoundTripWitness ==
    /\ cipher_pc = "decoded"
    /\ SEED = W32(255, 255, 255, 255)
    /\ Len(str) >= 8
    /\ enc # str
    /\ plain = str

\* C1 witness of the minimal case: a single-byte literal under seed 0.
RoundTripSingleByte ==
    cipher_pc = "decoded" /\ SEED = W32(0, 0, 0, 0) /\ Len(str) = 1 /\ plain = str

\* The key K of the literal being encoded.
LiteralKey == CipherKey(Len(str), SEED)

\* The table left by swapping position i with position 0 for i = N - 1 down
\* to 1: position i holds i + 1, the last position holds 0.
SwapWithZero(N) == Array([i \in 1..N |-> i % N])

\* C11 as stated: for every N >= 2 and every seed the swap index of Layer 3 is
\* 0 for every i, so the permutation is the same for all seeds.
SwapIndexZero ==
    (cipher_pc \in {"encoded", "decoded"} /\ Len(str) >= 2) =>
        /\ \A i \in 1..(Len(str) - 1) : SwapIndex(LiteralKey, i) = 0
        /\ IndexTable(Len(str), LiteralKey) = SwapWithZero(Len(str))

\* C11 amended: where std::size_t is 64 bits wide the product K * (i + 1)
\* cannot wrap, so for every N >= 2 and every seed the swap index of Layer 3 is
\* 0 for every i and the permutation is the same for all seeds.
SwapIndexZero64 ==
    (cipher_pc \in {"encoded", "decoded"} /\ Len(str) >= 2 /\ size_t_width = 8) =>
        /\ \A i \in 1..(Len(str) - 1) : SwapIndex(LiteralKey, i) = 0
        /\ IndexTable(Len(str), LiteralKey) = SwapWithZero(Len(str))

\* C11 witness: a literal of 8 or more bytes went through both directions
\* under the largest seed with a 64-bit size_t, every swap index being 0.
SwapIndexZeroWitness ==
    /\ cipher_pc = "decoded"
    /\ size_t_width = 8
    /\ SEED = W32(255, 255, 255, 255)
    /\ Len(str) >= 8
    /\ \A i \in 1..(Len(str) - 1) : SwapIndex(LiteralKey, i) = 0
    /\ plain = str

(***************************************************************************)
(* One ObfuscatedString<N, SEED> used by a single thread: constructed by   *)
(* OBF_MAKE_OBS from the build-time encoding of the literal, read through  *)
(* its accessors, destroyed.                                               *)
(***************************************************************************)

\* Accesses made to one object before it is destroyed.
MaxAccesses == 3

\* The literals held by the objects tried: "", "A", "HELLO", "A\0B" (each
\* with its terminator) and two raw bytes, the second one not a terminator.
ObjectTexts ==
    { <<0>>, <<65, 0>>, <<72, 69, 76, 76, 79, 0>>, <<65, 0, 66, 0>>, <<255, 128>> }

ObjectSeeds == { W32(0, 0, 0, 0), W32(18, 52, 86, 120), W32(255, 255, 255, 255) }

\* The literal of one OBF_MAKE_OBS(lit, SEED), its object not yet constructed.
LiteralInit ==
    /\ size_t_width \in {4, 8}
    /\ SEED \in ObjectSeeds
    /\ str \in ObjectTexts
    /\ ObjectIdle

ObjectInit ==
    /\ LiteralInit
    /\ CipherIdle
    /\ ThreadsIdle
    /\ BuildIdle
    /\ SitesIdle
    /\ JunkIdle

\* constexpr auto _enc = ObfuscateString<sizeof(lit), SEED>(lit);
\* static ObfuscatedString<sizeof(lit), SEED> _inst(_enc);
\* the constructor copies the encoded bytes, decrypted_ is empty, dec_ false.
Construct ==
    /\ life = "none"
    /\ encrypted_' = ObfuscateString(Len(str), SEED, str)
    /\ life' = "constructed"
    /\ UNCHANGED <<literalVars, enc, plain, cipher_pc, decrypted_, dec_, released,
                   decodes, history, threadVars,
                   buildVars, siteVars, junkVars>>

\* The test if (!dec_) of ensure(), decided wrongly: the cache is never trusted.
NeedsDecodeAlways(d) == TRUE

\* if (!dec_) in ensure()
NeedsDecode(d) == ~d

\* The C string at a char buffer: the bytes before its first NUL.
RECURSIVE CString(_)
CString(buf) ==
    IF buf = <<>> \/ Head(buf) = 0 THEN <<>> ELSE <<Head(buf)>> \o CString(Tail(buf))

\* The accessors, had length() counted the characters before the terminator.
Result_strlen(o, text) ==
    CASE o = "string" -> text
      [] o = "c_str"  -> text
      [] o = "length" -> Len(CString(text))
      [] o = "stream" -> CString(text)

\* What an accessor hands to its caller when decrypted_ holds text.
Result(o, text) ==
    CASE o = "string" -> text
      [] o = "c_str"  -> text
      [] o = "length" -> Len(text)
      [] o = "stream" -> CString(text)

\* One accessor call by the only thread: ensure(), then the read of decrypted_.
Access(o) ==
    /\ life = "constructed"
    /\ Len(history) < MaxAccesses
    /\ decrypted_' =
          IF NeedsDecode(dec_) THEN DecryptString(Len(encrypted_), SEED, encrypted_)
          ELSE decrypted_
    /\ decodes' = IF NeedsDecode(dec_) THEN decodes + 1 ELSE decodes
    /\ dec_' = IF NeedsDecode(dec_) THEN TRUE ELSE dec_
    /\ history' =
          Append(history,
                 [op |-> o, text |-> decrypted_', result |-> Result(o, decrypted_')])
    /\ UNCHANGED <<literalVars, enc, plain, cipher_pc, encrypted_, life, released,
                   threadVars,
                   buildVars, siteVars, junkVars>>

\* operator const std::string& () const
operator_string == Access("string")

\* const char* c_str() const
c_str == Access("c_str")

\* std::size_t length() const
length == Access("length")

\* friend std::ostream& operator<<(std::ostream&, const ObfuscatedString&)
operator_stream == Access("stream")

\* A destructor that leaves the first byte of the cache as it is.
WipeAllButFirst(d, text) ==
    IF d /\ text # <<>> THEN <<Head(text)>> \o [i \in 1..(Len(text) - 1) |-> 0] ELSE text

\* if (dec_) std::fill(decrypted_.begin(), decrypted_.end(), 0)
Wipe(d, text) == IF d THEN Array([i \in 1..Len(text) |-> 0]) ELSE text

\* ~ObfuscatedString(), then the destruction of the member decrypted_, which
\* releases its storage with the bytes the destructor body left in it.
Destroy ==
    /\ life = "constructed"
    /\ decrypted_' = Wipe(dec_, decrypted_)
    /\ released' = decrypted_'
    /\ life' = "destroyed"
    /\ UNCHANGED <<literalVars, enc, plain, cipher_pc, encrypted_, dec_, decodes,
                   history, threadVars,
                   buildVars, siteVars, junkVars>>

ObjectNext ==
    \/ Construct
    \/ operator_string
    \/ c_str
    \/ length
    \/ operator_stream
    \/ Destroy

SpecObject == ObjectInit /\ [][ObjectNext]_vars

\* C3: in a single thread, no decode happens before the first access, the decode
\* runs exactly once (on the first access), and every access of the sequence
\* returns the same decoded value.
LazyDecodeOnce ==
    /\ history = <<>> => decodes = 0 /\ ~dec_ /\ (life = "constructed" => decrypted_ = <<>>)
    /\ history # <<>> => decodes = 1 /\ dec_
    /\ \A i \in 1..Len(history) :
          /\ history[i].text = str
          /\ history[i].result = Result(history[i].op, history[1].text)

\* C3 witness: three accesses of different kinds were made to a literal with
\* text in it, and one decode served them all.
LazyDecodeOnceWitness ==
    /\ Len(history) >= 3
    /\ history[1].op = "length" /\ history[2].op = "string" /\ history[3].op = "stream"
    /\ Len(str) = 6
    /\ decodes = 1
    /\ history[2].result = str

\* C4: when the object is destroyed after having been decoded, every byte of its
\* cached plaintext is overwritten with zero before the storage is released; if
\* it was never decoded, no plaintext was ever stored.
SecureWipe ==
    /\ (life = "destroyed" /\ decodes > 0) =>
          /\ Len(released) = Len(str)
          /\ \A i \in 1..Len(released) : released[i] = 0
    /\ decodes = 0 => decrypted_ = <<>> /\ released = <<>>

\* C4 witness: an object holding "HELLO" was decoded, read and destroyed.
SecureWipeWitness ==
    /\ life = "destroyed"
    /\ decodes = 1
    /\ str = <<72, 69, 76, 76, 79, 0>>
    /\ history # <<>> /\ history[1].text = str
    /\ released = <<0, 0, 0, 0, 0, 0>>

\* C4 witness of the other case: an object destroyed without any access.
NeverDecodedWitness == life = "destroyed" /\ decodes = 0 /\ history = <<>> /\ released = <<>>

\* The literal is a string literal: its last byte is the terminator.
Terminated(text) == text # <<>> /\ text[Len(text)] = 0

\* C12: for a literal of N bytes including its terminator, the decoded text
\* held by the object has exactly N bytes, the last of them the terminator 0;
\* length() returns N, not N - 1, and the std::string view is not equal to the
\* literal's N - 1 characters.
LengthCountsTerminator ==
    Terminated(str) =>
        \A i \in 1..Len(history) :
            /\ Len(history[i].text) = Len(str)
            /\ history[i].text[Len(str)] = 0
            /\ history[i].op = "length" => history[i].result = Len(str)
            /\ history[i].op = "string" =>
                  /\ Len(history[i].result) = Len(str)
                  /\ history[i].result # SubSeq(str, 1, Len(str) - 1)

\* C12 witness: length() and the std::string conversion were called on the
\* object of "HELLO"; length() returned 6 and the string has 6 bytes.
LengthWitness ==
    /\ str = <<72, 69, 76, 76, 79, 0>>
    /\ Len(history) >= 2
    /\ history[1].op = "length" /\ history[1].result = 6
    /\ history[2].op = "string" /\ history[2].result = <<72, 69, 76, 76, 79, 0>>
    /\ decrypted_ = str

(***************************************************************************)
(* One ObfuscatedString<N, SEED> whose accessors are called by several     *)
(* threads.  ensure() takes no lock and dec_ is a plain bool, so the       *)
(* statements of ensure() and the read that follows it interleave freely:  *)
(*    if (!dec_) { decrypted_ = DecryptString<N, SEED>(encrypted_);        *)
(*                 dec_ = true; }                                          *)
(* The move assignment to decrypted_ is not atomic either; it has a begin  *)
(* and an end, and a read of decrypted_ by another thread between the two  *)
(* is a data race whose outcome is any of RacyViews.                       *)
(***************************************************************************)

\* Threads calling one accessor each.
NumThreads == 2

Threads == 1..NumThreads

ThreadOps == {"string", "c_str", "length"}

ConcurrentInit ==
    /\ LiteralInit
    /\ CipherIdle
    /\ pc = [t \in Threads |-> "idle"]
    /\ op = [t \in Threads |-> "none"]
    /\ tmp = [t \in Threads |-> <<>>]
    /\ writers = {}
    /\ ret = [t \in Threads |-> <<>>]
    /\ BuildIdle
    /\ SitesIdle
    /\ JunkIdle

\* Thread t enters operator const std::string&, c_str() or length().
Call(t) ==
    /\ life = "constructed"
    /\ pc[t] = "idle"
    /\ \E o \in ThreadOps : op' = [op EXCEPT ![t] = o]
    /\ pc' = [pc EXCEPT ![t] = "ensure"]
    /\ UNCHANGED <<cipherVars, objectVars, tmp, writers, ret,
                   buildVars, siteVars, junkVars>>

\* ensure(): if (!dec_)
EnsureTest(t) ==
    /\ pc[t] = "ensure"
    /\ pc' = [pc EXCEPT ![t] = IF NeedsDecode(dec_) THEN "decrypt" ELSE "read"]
    /\ UNCHANGED <<cipherVars, objectVars, op, tmp, writers, ret,
                   buildVars, siteVars, junkVars>>

\* ensure(): DecryptString<N, SEED>(encrypted_), into a temporary
EnsureDecrypt(t) ==
    /\ pc[t] = "decrypt"
    /\ tmp' = [tmp EXCEPT ![t] = DecryptString(Len(encrypted_), SEED, encrypted_)]
    /\ decodes' = decodes + 1
    /\ pc' = [pc EXCEPT ![t] = "assign"]
    /\ UNCHANGED <<cipherVars, encrypted_, decrypted_, dec_, life, released, history,
                   op, writers, ret,
                   buildVars, siteVars, junkVars>>

\* ensure(): decrypted_ = <temporary>, the assignment starts
EnsureAssignBegin(t) ==
    /\ pc[t] = "assign"
    /\ writers' = writers \cup {t}
    /\ pc' = [pc EXCEPT ![t] = "assigning"]
    /\ UNCHANGED <<cipherVars, objectVars, op, tmp, ret,
                   buildVars, siteVars, junkVars>>

\* ensure(): decrypted_ = <temporary>, the assignment is complete
EnsureAssignEnd(t) ==
    /\ pc[t] = "assigning"
    /\ decrypted_' = tmp[t]
    /\ writers' = writers \ {t}
    /\ pc' = [pc EXCEPT ![t] = "flag"]
    /\ UNCHANGED <<cipherVars, encrypted_, dec_, life, released, decodes, history,
                   op, tmp, ret,
                   buildVars, siteVars, junkVars>>

\* ensure(): dec_ = true
EnsureSetFlag(t) ==
    /\ pc[t] = "flag"
    /\ dec_' = TRUE
    /\ pc' = [pc EXCEPT ![t] = "read"]
    /\ UNCHANGED <<cipherVars, encrypted_, decrypted_, life, released, decodes,
                   history, op, tmp, writers, ret,
                   buildVars, siteVars, junkVars>>

\* What a read of decrypted_ can see while thread w is assigning it: the old
\* value, the new one, a string whose storage has been taken away, or the
\* first half of the new bytes.
RacyViews(w) ==
    { decrypted_, tmp[w], <<>>, SubSeq(tmp[w], 1, Len(tmp[w]) \div 2) }

\* return decrypted_ / decrypted_.c_str() / decrypted_.length()
Read(t) ==
    /\ pc[t] = "read"
    /\ \E text \in {decrypted_} \cup UNION { RacyViews(w) : w \in writers \ {t} } :
          ret' = [ret EXCEPT ![t] = Result(op[t], text)]
    /\ pc' = [pc EXCEPT ![t] = "done"]
    /\ UNCHANGED <<cipherVars, objectVars, op, tmp, writers,
                   buildVars, siteVars, junkVars>>

ConcurrentNext ==
    \/ Construct
    \/ \E t \in Threads :
          \/ Call(t)
          \/ EnsureTest(t)
          \/ EnsureDecrypt(t)
          \/ EnsureAssignBegin(t)
          \/ EnsureAssignEnd(t)
          \/ EnsureSetFlag(t)
          \/ Read(t)

SpecConcurrent == ConcurrentInit /\ [][ConcurrentNext]_vars

\* C2: under concurrent first access from two or more threads the decode step
\* executes at most once, and every caller that returns observes the fully
\* decoded value.
DecodeAtMostOnce ==
    /\ decodes <= 1
    /\ \A t \in Threads : pc[t] = "done" => ret[t] = Result(op[t], str)

(***************************************************************************)
(* Junk.h: mixers and compile-time seeds                                   *)
(***************************************************************************)

\* uint32_t rotl(uint32_t x, unsigned r) and rotr
rotl(x, r) == Or(Shl(x, r % 32), Shr(x, (32 - r) % 32))
rotr(x, r) == Or(Shr(x, r % 32), Shl(x, (32 - r) % 32))

xorshift32(x) ==
    LET x1 == Xor(x, Shl(x, 13))
        x2 == Xor(x1, Shr(x1, 17))
    IN  Xor(x2, Shl(x2, 5))

\* junk_detail::mix32
mix32(x) ==
    LET a == xorshift32(Add(Xor(x, W32(158, 55, 121, 185)), W32(133, 235, 202, 107)))
        b == Mul(rotl(Xor(a, W32(194, 178, 174, 53)), 17), W32(39, 212, 235, 45))
    IN  Xor(b, rotr(b, 15))

\* The hash after the first n characters of s:  h ^= s[i]; h *= 0x01000193
RECURSIVE fnv1a32_prefix(_, _)
fnv1a32_prefix(s, n) ==
    IF n = 0 THEN W32(129, 28, 157, 197)
    ELSE Mul(Xor(fnv1a32_prefix(s, n - 1), FromNat(s[n], 4)), W32(1, 0, 1, 147))

\* fnv1a32_cstr(s), s given without its terminator
fnv1a32_cstr(s) == fnv1a32_prefix(s, Len(s))

\* time_seed() for __TIME__ = t, the characters of "hh:mm:ss"
time_seed(t) ==
    LET hh == (t[1] - 48) * 10 + (t[2] - 48)
        mm == (t[4] - 48) * 10 + (t[5] - 48)
        ss == (t[7] - 48) * 10 + (t[8] - 48)
        t0 == FromNat(hh * 3600 + mm * 60 + ss, 4)
        t1 == Xor(t0, Shl(t0, 7))
        t2 == Xor(t1, Shr(t1, 11))
    IN  Mul(t2, W32(158, 55, 121, 177))

\* tu_seed() in the build b = [file, date, time]
tu_seed(b) ==
    LET h  == Xor(Xor(fnv1a32_cstr(b.file), fnv1a32_cstr(b.date)), time_seed(b.time))
        h1 == Xor(h, Shl(h, 13))
        h2 == Xor(h1, Shr(h1, 17))
    IN  Xor(h2, Shl(h2, 5))

\* site_seed<Line, Ctr>::value in a build whose tu_seed() is t
site_seed(Line, Ctr, t) ==
    mix32(Xor(Xor(Mul(FromNat(Line, 4), W32(0, 25, 102, 13)),
                  Mul(FromNat(Ctr, 4), W32(60, 110, 243, 95))),
              t))

\* The three seeds of emit: S0, S1 = mix32(S0 ^ 0x85EBCA6B), S2 = mix32(S1 ^ 0xC2B2AE35)
DerivedSeeds(Line, Ctr, t) ==
    LET S0 == site_seed(Line, Ctr, t)
        S1 == mix32(Xor(S0, W32(133, 235, 202, 107)))
        S2 == mix32(Xor(S1, W32(194, 178, 174, 53)))
    IN  [S0 |-> S0, S1 |-> S1, S2 |-> S2]

\* OBF_UNIQUE_SEED, had it mixed in the fingerprint of the build it expands in.
OBF_UNIQUE_SEED_salted(t, c, line) ==
    StringObfuscator_mix32(
        Xor(Xor(Mul(FromNat(c, 4), W32(0, 25, 102, 13)), FromNat(line, 4)), t))

\* OBF_UNIQUE_SEED, expanded where __COUNTER__ is c and __LINE__ is line, in a
\* build whose tu_seed() is t:  mix32((__COUNTER__ * 1664525u) ^ __LINE__)
OBF_UNIQUE_SEED(t, c, line) ==
    StringObfuscator_mix32(Xor(Mul(FromNat(c, 4), W32(0, 25, 102, 13)), FromNat(line, 4)))

(***************************************************************************)
(* Build time: the macros of one translation unit are expanded, in source  *)
(* order, in two builds of the same source that differ in __FILE__,        *)
(* __DATE__ or __TIME__.  last is the latest request, pinned one of the    *)
(* junk-block requests made before it.                                     *)
(***************************************************************************)

\* Largest value of __COUNTER__ consumed.
MaxCounter == 12

\* __LINE__ of the requests.
Lines == {10, 42}

\* sizeof(lit) of the literals requested.
LiteralSizes == {1, 6}

\* "Junk.h", built on "Jan  1 2025" at "00:00:00"
BuildA == [file |-> <<74, 117, 110, 107, 46, 104>>,
           date |-> <<74, 97, 110, 32, 32, 49, 32, 50, 48, 50, 53>>,
           time |-> <<48, 48, 58, 48, 48, 58, 48, 48>>]

\* "Junk.h", built on "Jan  1 2025" at "00:00:01"
BuildB == [file |-> <<74, 117, 110, 107, 46, 104>>,
           date |-> <<74, 97, 110, 32, 32, 49, 32, 50, 48, 50, 53>>,
           time |-> <<48, 48, 58, 48, 48, 58, 48, 49>>]

\* "Junk.h", built on "Oct 29 2025" at "15:00:25"
BuildC == [file |-> <<74, 117, 110, 107, 46, 104>>,
           date |-> <<79, 99, 116, 32, 50, 57, 32, 50, 48, 50, 53>>,
           time |-> <<49, 53, 58, 48, 48, 58, 50, 53>>]

\* "src/Junk.h", built on "Jan  1 2025" at "00:00:00"
BuildD == [file |-> <<115, 114, 99, 47, 74, 117, 110, 107, 46, 104>>,
           date |-> <<74, 97, 110, 32, 32, 49, 32, 50, 48, 50, 53>>,
           time |-> <<48, 48, 58, 48, 48, 58, 48, 48>>]

BuildPairs == { <<BuildA, BuildB>>, <<BuildA, BuildC>>, <<BuildA, BuildD>> }

SitesInit ==
    /\ builds \in BuildPairs
    /\ tu = <<>>
    /\ site_pc = "start"
    /\ counter = 0
    /\ pinned = NoRequest
    /\ last = NoRequest
    /\ size_t_width = 8 /\ SEED = <<>> /\ str = <<>>
    /\ CipherIdle
    /\ ObjectIdle
    /\ ThreadsIdle
    /\ JunkIdle

\* The compiler evaluates the constexpr tu_seed() of each build.
StartBuild ==
    /\ site_pc = "start"
    /\ tu' = Array([b \in 1..Len(builds) |-> tu_seed(builds[b])])
    /\ site_pc' = "expand"
    /\ UNCHANGED <<cipherVars, objectVars, threadVars, builds, counter, pinned, last,
                   junkVars>>

\* The template arguments of a junk-block request expanded where __COUNTER__ is c:
\*   emit<__LINE__, (__COUNTER__ & 0x3FFF)>()
\*   emit_heavy<__LINE__, ((__COUNTER__ + 11) & 0x3FFF)>()
JunkRequest(kind, line, c) ==
    LET Ctr == IF kind = "light" THEN c % 16384 ELSE (c + 11) % 16384
    IN  [kind |-> kind, counter |-> c, Line |-> line, Ctr |-> Ctr,
         seeds |-> Array([b \in 1..Len(tu) |-> DerivedSeeds(line, Ctr, tu[b])])]

\* The request of OBS(lit) expanded where __COUNTER__ is c, sizeof(lit) = N:
\*   ObfuscatedString<sizeof(lit), OBF_UNIQUE_SEED>, and the K of its cipher
LiteralRequest(N, line, c) ==
    LET seed == Array([b \in 1..Len(tu) |-> OBF_UNIQUE_SEED(tu[b], c, line)])
    IN  [kind |-> "literal", counter |-> c, Line |-> line, N |-> N, seed |-> seed,
         K |-> Array([b \in 1..Len(tu) |-> CipherKey(N, seed[b])])]

\* One request consumes one value of __COUNTER__; the request before it, if it
\* asked for a junk block, may become the pinned one.
Request(r) ==
    /\ site_pc = "expand"
    /\ counter <= MaxCounter
    /\ last' = r
    /\ pinned' \in {pinned} \cup (IF last.kind \in {"light", "heavy"} THEN {last} ELSE {})
    /\ counter' = counter + 1
    /\ UNCHANGED <<cipherVars, objectVars, threadVars, buildVars, site_pc, junkVars>>

\* JUNK_CODE_BLOCK()
JUNK_CODE_BLOCK == \E line \in Lines : Request(JunkRequest("light", line, counter))

\* JUNK_CODE_BLOCK_ADVANCED()
JUNK_CODE_BLOCK_ADVANCED == \E line \in Lines : Request(JunkRequest("heavy", line, counter))

\* OBS(lit): OBF_MAKE_OBS(lit, OBF_UNIQUE_SEED); the argument is expanded once,
\* so one value of __COUNTER__ is consumed and SEED is the same at its three uses.
OBS == \E line \in Lines, N \in LiteralSizes : Request(LiteralRequest(N, line, counter))

SitesNext ==
    \/ StartBuild
    \/ JUNK_CODE_BLOCK
    \/ JUNK_CODE_BLOCK_ADVANCED
    \/ OBS

SpecSites == SitesInit /\ [][SitesNext]_vars

IsJunk(r) == r.kind \in {"light", "heavy"}

\* C5: within one build, any two distinct junk-block requests, light or heavy, at
\* any source lines, receive distinct (Line, Ctr) pairs.
SiteIdentitiesDistinct ==
    (IsJunk(pinned) /\ IsJunk(last)) =>
        <<pinned.Line, pinned.Ctr>> # <<last.Line, last.Ctr>>

\* C6 as stated: for a literal at a fixed site, two builds with different build
\* fingerprints use different seeds.
LiteralSeedDependsOnBuild ==
    (last.kind = "literal" /\ tu[1] # tu[2]) =>
        last.seed[1] # last.seed[2] /\ last.K[1] # last.K[2]

\* C6 amended: the seed of an obfuscated literal, and the cipher key K derived
\* from it, depend on the site (counter, line) and on N only; two builds with
\* different fingerprints use the same seed and the same K at the same site.
LiteralSeedIgnoresBuild ==
    last.kind = "literal" =>
        last.seed[1] = last.seed[2] /\ last.K[1] = last.K[2]

\* C6 witness: a literal was requested in two builds whose fingerprints differ.
LiteralSeedWitness ==
    /\ last.kind = "literal"
    /\ tu[1] # tu[2]
    /\ last.counter > 0
    /\ last.N = 6
    /\ last.seed[1] = last.seed[2]

\* C7: for every junk site, a different build fingerprint tu_seed() changes each
\* of the derived seeds S0, S1 and S2 of the site.
FingerprintChangesSeeds ==
    (IsJunk(last) /\ tu[1] # tu[2]) =>
        /\ last.seeds[1].S0 # last.seeds[2].S0
        /\ last.seeds[1].S1 # last.seeds[2].S1
        /\ last.seeds[1].S2 # last.seeds[2].S2

(***************************************************************************)
(* Junk.h at run time: control reaches one junk block and its dispatcher   *)
(* runs.  trace lists the pattern invocations made, oldest first; each     *)
(* entry names the dispatcher and the loop index that made it.             *)
(***************************************************************************)

\* constexpr int r0_base = 1 + ((S0 >> 25) & 7), r1_base = 2 + ((S1 >> 26) & 7)
r0_base(S0) == 1 + Bits(S0, 25, 3)
r1_base(S1) == 2 + Bits(S1, 26, 3)

repeats_wide(S2) == 1 + Bits(S2, 28, 3)

\* constexpr int repeats = 1 + ((S2 >> 28) & 3)
repeats(S2) == 1 + Bits(S2, 28, 2)

\* constexpr uint32_t sec_mask = ((S0 ^ (S1 << 1) ^ (S2 << 2)) | 0x1u)
sec_mask(S0, S1, S2) == Or(Xor(Xor(S0, Shl(S1, 1)), Shl(S2, 2)), FromNat(1, 4))

\* sec_mask & (1u << b)
MaskBit(mask, b) == Bits(mask, b, 1) = 1

\* const uint32_t Si = mix32(S0 + i * 0x9E3779B9u)
emit_Si(S0, i) == mix32(Add(S0, Mul(FromNat(i, 4), W32(158, 55, 121, 185))))

emit_sel_leaky(S0, S1, S2, Si) == Xor(Xor(Xor(S0, S1), S2), Shl(Si, 2))

\* The selector emit hands to emit_core:  S0 ^ S1 ^ S2 ^ (Si << 3)
emit_sel(S0, S1, S2, Si) == Xor(Xor(Xor(S0, S1), S2), Shl(Si, 3))

extra_wide(Sx) == 1 + Bits(Sx, 22, 4)

\* constexpr int extra = 1 + ((Sx >> 22) & 7)
extra(Sx) == 1 + Bits(Sx, 22, 3)

\* const uint32_t Sk = mix32(Sx + k * 0x27D4EB2Du)
emit_heavy_Sk(Sx, k) == mix32(Add(Sx, Mul(FromNat(k, 4), W32(39, 212, 235, 45))))

\* The selector emit_heavy hands to emit_core:  Sk ^ (Sx << 1) ^ 0xDEADBEEF
emit_heavy_sel(Sx, Sk) == Xor(Xor(Sk, Shl(Sx, 1)), W32(222, 173, 190, 239))

\* One pattern invocation: the pattern function and its arguments.
Invoke(fn, args) == [fn |-> fn, args |-> args]

\* emit_core(S, r0, r1, sel): the pattern invocation it makes
emit_core(S, r0, r1, sel) ==
    LET c == Bits(sel, 0, 3)
    IN  CASE c = 0 -> Invoke("p_mix_u32", <<Xor(S, W32(17, 17, 17, 17)), r0 + 2>>)
          [] c = 1 -> Invoke("p_arith_int", <<Xor(S, W32(34, 34, 34, 34)), r1>>)
          [] c = 2 -> Invoke("p_fp_mix", <<Xor(S, W32(51, 51, 51, 51)), r0 + r1>>)
          [] c = 3 -> Invoke("p_small_vec", <<Xor(S, W32(68, 68, 68, 68))>>)
          [] c = 4 -> Invoke("p_ptr_jiggle", <<Xor(S, W32(85, 85, 85, 85))>>)
          [] c = 5 -> Invoke("p_structs_rt",
                             <<Xor(FromNat(341, 4), And(Shr(S, 10), FromNat(1023, 4)))>>)
          [] c = 6 -> Invoke("p_structs_rt",
                             <<Xor(FromNat(682, 4), And(Shr(S, 11), FromNat(2047, 4)))>>)
          [] OTHER -> Invoke("p_mix_u32", <<Xor(S, W32(102, 102, 102, 102)), r0>>)

\* A trace entry: invocation v made by dispatcher by in iteration i as role.
Entry(by, i, role, v) == [by |-> by, i |-> i, role |-> role, fn |-> v.fn, args |-> v.args]

\* The body of the loop of emit for loop index i.
emit_body(c, i) ==
    LET Si == emit_Si(c.S0, i)
        r0 == c.r0_base + Bits(Si, 21, 2)
        r1 == c.r1_base + Bits(Si, 23, 2)
    IN  <<Entry("emit", i, "core", emit_core(Si, r0, r1, emit_sel(c.S0, c.S1, c.S2, Si)))>>
        \o (IF MaskBit(c.sec_mask, i % 8)
            THEN <<Entry("emit", i, "secondary",
                         Invoke("p_small_vec", <<Xor(Si, W32(165, 165, 165, 165))>>))>>
            ELSE <<>>)
        \o (IF MaskBit(c.sec_mask, (i + 3) % 8)
            THEN <<Entry("emit", i, "secondary",
                         Invoke("p_ptr_jiggle", <<Xor(Si, W32(127, 74, 124, 21))>>))>>
            ELSE <<>>)
        \o (IF MaskBit(c.sec_mask, (i + 5) % 8)
            THEN <<Entry("emit", i, "secondary",
                         Invoke("p_fp_mix", <<Xor(Si, W32(195, 236, 235, 93)),
                                              1 + Bits(Si, 0, 2)>>))>>
            ELSE <<>>)

\* The body of the loop of emit_heavy for loop index k.
emit_heavy_body(c, k) ==
    LET Sk == emit_heavy_Sk(c.Sx, k)
        r0 == 1 + Bits(Sk, 20, 3)
        r1 == 2 + Bits(Sk, 23, 3)
    IN  <<Entry("emit_heavy", k, "core", emit_core(Sk, r0, r1, emit_heavy_sel(c.Sx, Sk)))>>
        \o (IF Bits(Sk, 14, 1) = 1
            THEN <<Entry("emit_heavy", k, "arith",
                         Invoke("p_arith_int", <<Xor(Sk, W32(18, 52, 86, 120)),
                                                 2 + Bits(Sk, 17, 2)>>))>>
            ELSE <<>>)

\* The builds whose junk blocks are run.
RunBuilds == { <<BuildA>>, <<BuildC>> }

\* One build; the block that will run is expanded where __COUNTER__ is counter.
JunkInit ==
    /\ builds \in RunBuilds
    /\ tu = <<>>
    /\ site_pc = "start"
    /\ counter \in 0..MaxCounter
    /\ pinned = NoRequest
    /\ last = NoRequest
    /\ size_t_width = 8 /\ SEED = <<>> /\ str = <<>>
    /\ CipherIdle
    /\ ObjectIdle
    /\ ThreadsIdle
    /\ JunkIdle

\* Control reaches a junk block of the given kind expanded at __LINE__ = line.
EnterBlock ==
    /\ site_pc = "expand"
    /\ junk_pc = "idle"
    /\ \E kind \in {"light", "heavy"}, line \in Lines :
          /\ site' = JunkRequest(kind, line, counter)
          /\ mode' = kind
    /\ junk_pc' = "call"
    /\ UNCHANGED <<cipherVars, objectVars, threadVars, buildVars, siteVars,
                   emit_c, heavy_c, emit_i, heavy_k, emits, trace>>

\* emit_heavy<Line, Ctr>() is entered: Sx, extra
emit_heavy_enter ==
    /\ junk_pc = "call"
    /\ mode = "heavy"
    /\ LET Sx == site.seeds[1].S0
       IN  heavy_c' = [Sx |-> Sx, extra |-> extra(Sx)]
    /\ junk_pc' = "heavy_emit"
    /\ UNCHANGED <<cipherVars, objectVars, threadVars, buildVars, siteVars,
                   mode, site, emit_c, emit_i, heavy_k, emits, trace>>

\* emit<Line, Ctr>() is entered, from the macro or from emit_heavy: its constants
emit_enter ==
    /\ \/ junk_pc = "call" /\ mode = "light"
       \/ junk_pc = "heavy_emit"
    /\ LET d == site.seeds[1]
       IN  emit_c' = [S0 |-> d.S0, S1 |-> d.S1, S2 |-> d.S2,
                      r0_base |-> r0_base(d.S0), r1_base |-> r1_base(d.S1),
                      repeats |-> repeats(d.S2),
                      sec_mask |-> sec_mask(d.S0, d.S1, d.S2)]
    /\ emit_i' = 0
    /\ emits' = emits + 1
    /\ junk_pc' = "emit_loop"
    /\ UNCHANGED <<cipherVars, objectVars, threadVars, buildVars, siteVars,
                   mode, site, heavy_c, heavy_k, trace>>

\* for (int i = 0; i < repeats; ++i) { ... }: one iteration
emit_iteration ==
    /\ junk_pc = "emit_loop"
    /\ emit_i < emit_c.repeats
    /\ trace' = trace \o emit_body(emit_c, emit_i)
    /\ emit_i' = emit_i + 1
    /\ UNCHANGED <<cipherVars, objectVars, threadVars, buildVars, siteVars,
                   junk_pc, mode, site, emit_c, heavy_c, heavy_k, emits>>

\* The loop of emit ends and emit returns.
emit_return ==
    /\ junk_pc = "emit_loop"
    /\ emit_i >= emit_c.repeats
    /\ junk_pc' = IF mode = "heavy" THEN "heavy_loop" ELSE "done"
    /\ UNCHANGED <<cipherVars, objectVars, threadVars, buildVars, siteVars,
                   mode, site, emit_c, heavy_c, emit_i, heavy_k, emits, trace>>

\* for (int k = 0; k < extra; ++k) { ... }: one iteration
emit_heavy_iteration ==
    /\ junk_pc = "heavy_loop"
    /\ heavy_k < heavy_c.extra
    /\ trace' = trace \o emit_heavy_body(heavy_c, heavy_k)
    /\ heavy_k' = heavy_k + 1
    /\ UNCHANGED <<cipherVars, objectVars, threadVars, buildVars, siteVars,
                   junk_pc, mode, site, emit_c, heavy_c, emit_i, emits>>

\* The loop of emit_heavy ends and emit_heavy returns.
emit_heavy_return ==
    /\ junk_pc = "heavy_loop"
    /\ heavy_k >= heavy_c.extra
    /\ junk_pc' = "done"
    /\ UNCHANGED <<cipherVars, objectVars, threadVars, buildVars, siteVars,
                   mode, site, emit_c, heavy_c, emit_i, heavy_k, emits, trace>>

JunkNext ==
    \/ StartBuild
    \/ EnterBlock
    \/ emit_heavy_enter
    \/ emit_enter
    \/ emit_iteration
    \/ emit_return
    \/ emit_heavy_iteration
    \/ emit_heavy_return

SpecJunk == JunkInit /\ [][JunkNext]_vars

\* The invocations made by emit in iteration j, and by emit_heavy in iteration k.
EmitCalls(j) == SelectSeq(trace, LAMBDA e : e.by = "emit" /\ e.i = j)
HeavyCalls(k) == SelectSeq(trace, LAMBDA e : e.by = "emit_heavy" /\ e.i = k)
AllHeavyCalls == SelectSeq(trace, LAMBDA e : e.by = "emit_heavy")
EmitReturned == junk_pc \in {"heavy_loop", "done"}

\* The constant emit mixes into Si for each secondary pattern.
SecondarySalt(fn) ==
    CASE fn = "p_small_vec" -> W32(165, 165, 165, 165)
      [] fn = "p_ptr_jiggle" -> W32(127, 74, 124, 21)
      [] fn = "p_fp_mix" -> W32(195, 236, 235, 93)

\* C8: one call of emit executes its loop between 1 and 4 times; each iteration
\* runs exactly one primary pattern, then between 0 and 3 secondary patterns out
\* of p_small_vec, p_ptr_jiggle, p_fp_mix, each on a sub-seed mixed from Si.
EmitShape ==
    emit_c # NoRequest =>
        /\ emit_c.repeats \in 1..4
        /\ emit_i <= emit_c.repeats
        /\ EmitReturned => emit_i = emit_c.repeats
        /\ \A n \in 1..Len(trace) : trace[n].by = "emit" => trace[n].i < emit_i
        /\ \A j \in 0..(emit_i - 1) :
              LET calls == EmitCalls(j)
                  Si == emit_Si(emit_c.S0, j)
              IN  /\ Len(calls) \in 1..4
                  /\ calls[1].role = "core"
                  /\ \A n \in 2..Len(calls) :
                        /\ calls[n].role = "secondary"
                        /\ calls[n].fn \in {"p_small_vec", "p_ptr_jiggle", "p_fp_mix"}
                        /\ calls[n].args[1] = Xor(Si, SecondarySalt(calls[n].fn))
                        /\ \A m \in 2..(n - 1) : calls[m].fn # calls[n].fn

\* C8 witness: emit returned after four iterations, one of them with no
\* secondary pattern and one of them with all three.
EmitShapeWitness ==
    /\ junk_pc = "done"
    /\ mode = "light"
    /\ emit_c.repeats = 4
    /\ \E j \in 0..3 : Len(EmitCalls(j)) = 1
    /\ \E j \in 0..3 : Len(EmitCalls(j)) = 4

\* C9 as stated: emit_heavy runs emit once and then makes between 1 and 8
\* further pattern invocations, never more than 8.
HeavyAtMostEight ==
    (mode = "heavy" /\ junk_pc = "done") =>
        /\ emits = 1
        /\ Len(AllHeavyCalls) \in 1..8

\* C9 amended: emit_heavy runs emit exactly once and then its own loop between
\* 1 and 8 times; each iteration invokes one pattern through emit_core and,
\* when bit 14 of Sk is set, p_arith_int on Sk ^ 0x12345678 as well, so the
\* further pattern invocations number between 1 and 16.
HeavyShape ==
    heavy_c # NoRequest =>
        /\ heavy_c.extra \in 1..8
        /\ heavy_k <= heavy_c.extra
        /\ junk_pc \in {"emit_loop", "heavy_loop", "done"} => emits = 1
        /\ junk_pc = "done" =>
              /\ heavy_k = heavy_c.extra
              /\ Len(AllHeavyCalls) \in 1..16
        /\ ~EmitReturned => AllHeavyCalls = <<>>
        /\ \A n \in 1..Len(trace) : trace[n].by = "emit_heavy" => trace[n].i < heavy_k
        /\ \A k \in 0..(heavy_k - 1) :
              LET calls == HeavyCalls(k)
                  Sk == emit_heavy_Sk(heavy_c.Sx, k)
              IN  /\ Len(calls) \in 1..2
                  /\ calls[1].role = "core"
                  /\ Len(calls) = 2 <=> Bits(Sk, 14, 1) = 1
                  /\ Len(calls) = 2 =>
                        /\ calls[2].fn = "p_arith_int"
                        /\ calls[2].args[1] = Xor(Sk, W32(18, 52, 86, 120))

\* C9 witness: emit_heavy returned after more than 8 further invocations.
HeavyShapeWitness ==
    /\ mode = "heavy"
    /\ junk_pc = "done"
    /\ emits = 1
    /\ Len(AllHeavyCalls) > 8

\* The pattern kinds of the catalog, in order.
Catalog ==
    <<"p_mix_u32", "p_arith_int", "p_fp_mix", "p_small_vec", "p_ptr_jiggle", "p_structs_rt">>

\* The primary pattern invocations made by emit so far.
Primaries == SelectSeq(trace, LAMBDA e : e.by = "emit" /\ e.role = "core")

\* S0 ^ S1 ^ S2 of the running emit
SeedXor == Xor(Xor(emit_c.S0, emit_c.S1), emit_c.S2)

\* C10 as stated: the primary pattern of emit is the catalog entry numbered
\* (S0 xor S1 xor S2) mod 6, the same in every iteration.
PrimaryIsModPatternCount ==
    emit_c # NoRequest =>
        \A n \in 1..Len(Primaries) :
            Primaries[n].fn = Catalog[ModSmall(SeedXor, Len(Catalog)) + 1]

\* The pattern kind behind each case of the switch of emit_core.
SwitchKinds ==
    <<"p_mix_u32", "p_arith_int", "p_fp_mix", "p_small_vec", "p_ptr_jiggle",
      "p_structs_rt", "p_structs_rt", "p_mix_u32">>

\* C10 amended: the primary pattern of emit is the one the switch of emit_core
\* selects for the low three bits of S0 xor S1 xor S2 (0 and 7 p_mix_u32,
\* 1 p_arith_int, 2 p_fp_mix, 3 p_small_vec, 4 p_ptr_jiggle, 5 and 6
\* p_structs_rt); Si has no influence, so every iteration of one emit call runs
\* the same primary pattern kind.
PrimaryIsLowThreeBits ==
    emit_c # NoRequest =>
        /\ \A n \in 1..Len(Primaries) :
              Primaries[n].fn = SwitchKinds[Bits(SeedXor, 0, 3) + 1]
        /\ \A m, n \in 1..Len(Primaries) : Primaries[m].fn = Primaries[n].fn

\* C10 witness: emit returned after two or more iterations at a site whose
\* low three seed bits are 6 or 7.
PrimaryWitness ==
    /\ EmitReturned
    /\ emit_c.repeats >= 2
    /\ Len(Primaries) = emit_c.repeats
    /\ Bits(SeedXor, 0, 3) \in {6, 7}

=============================================================================
